---- MODULE Spec2Model ----
(***************************************************************************)
(* Model of the console script ScriptInit.py of the Space game: the four   *)
(* context globals bound by setExecutingPlayer and the debug commands      *)
(* goto, desync, listEquipment, equip, unequip and ftext, run against a    *)
(* small entity-component manager (avatars with attributes, inventory,     *)
(* root item slot and transform; items with item slots).                   *)
(***************************************************************************)
EXTENDS Integers, Sequences, FiniteSets, TLC

(* ---------------------------- bounds ----------------------------------- *)
NumPlayers == 2
NumItems == 3
Res == 2
MaxDesync == 1

(* ------------------------ the manager's world -------------------------- *)
None == 0

Players == 0 .. (NumPlayers - 1)

GetAvatar(player) == player + 1

Avatars == { GetAvatar(p) : p \in Players }

Items == (NumPlayers + 1) .. (NumPlayers + NumItems)

Peers == {1, 2}

\* Kind of an item: 1 = hull-like (fits a root slot, carries two slots), 0 = module.
ItemType(itemId) == (itemId - NumPlayers) % 2

\* Component ids: ten per entity, the last digit names the component.
ComponentId(entity, k) == entity * 10 + k

\* The item slots of an entity, in the order GetComponents enumerates them.
GetComponents(entity) ==
    IF entity \in Avatars THEN << ComponentId(entity, 3) >>
    ELSE IF entity \in Items /\ ItemType(entity) = 1
         THEN << ComponentId(entity, 3), ComponentId(entity, 4) >>
         ELSE << >>

\* manager.GetComponent(entity, type): the component id, or None.
GetComponent(entity, type) ==
    CASE type = "Attributes" -> IF entity \in Avatars THEN ComponentId(entity, 1) ELSE None
      [] type = "Inventory"  -> IF entity \in Avatars THEN ComponentId(entity, 2) ELSE None
      [] type = "ItemSlot"   -> IF GetComponents(entity) # << >>
                                THEN GetComponents(entity)[1] ELSE None
      [] type = "Item"       -> IF entity \in Items THEN ComponentId(entity, 5) ELSE None
      [] type = "Transform"  -> IF entity \in Avatars THEN entity ELSE None
      [] OTHER               -> None

Range(seq) == { seq[i] : i \in DOMAIN seq }

SlotIds == UNION { Range(GetComponents(e)) : e \in Avatars \cup Items }

InventoryIds == { GetComponent(a, "Inventory") : a \in Avatars }

\* slot.Validate(item): the slot accepts the item's kind.
SlotType(slot) ==
    IF (slot \div 10) \in Avatars THEN 1 ELSE (slot % 10) - 3

Validate(slot, item) == SlotType(slot) = ItemType(item \div 10)

\* slot.AllSlots: the slot itself, then the slots of the item it holds, depth first.
RECURSIVE AllSlots(_, _)
RECURSIVE AllSlotsOf(_, _)
AllSlots(slot, si) ==
    << slot >> \o (IF si[slot] > 0 THEN AllSlotsOf(GetComponents(si[slot]), si) ELSE << >>)

AllSlotsOf(slots, si) ==
    IF slots = << >> THEN << >>
    ELSE AllSlots(Head(slots), si) \o AllSlotsOf(Tail(slots), si)

FarPosition(x, y) == << x, y >>

(* ------------------------------ state ---------------------------------- *)
VARIABLES
    avatar, attributes, inventory, equipment,   \* the script's context globals
    executing,      \* argument of the last setExecutingPlayer call
    contents,       \* contents of each Inventory component
    slotItem,       \* slot.Item of each ItemSlot component
    Position,       \* position of each avatar's transform, on each peer
    display,        \* position the last command handed to FloatingTextSystem.Display, per peer
    output,         \* lines printed by the last command
    rnd,            \* the values random.random() returned to the last command, per peer
    ndesync,        \* number of desync calls so far
    last            \* the last command, its arguments and how it ended

vars == << avatar, attributes, inventory, equipment, executing, contents, slotItem,
           Position, display, output, rnd, ndesync, last >>

globals == << avatar, attributes, inventory, equipment >>

Origin == << 0, 0 >>

\* A command that displays nothing and draws no random value.
Quiet ==
    /\ display' = [ p \in Peers |-> << >> ]
    /\ rnd' = [ p \in Peers |-> Origin ]

InitCommon ==
    /\ avatar = None
    /\ attributes = None
    /\ inventory = None
    /\ equipment = None
    /\ executing = -1
    /\ slotItem = [ s \in SlotIds |-> 0 ]
    /\ Position = [ p \in Peers |-> [ a \in Avatars |-> Origin ] ]
    /\ display = [ p \in Peers |-> << >> ]
    /\ output = << >>
    /\ rnd = [ p \in Peers |-> Origin ]
    /\ ndesync = 0
    /\ last = [ op |-> "init", arg |-> << >>, result |-> "returned", moved |-> 0 ]

\* Every item starts in some avatar's inventory.
Init ==
    /\ InitCommon
    /\ \E home \in [ Items -> Avatars ] :
          contents = [ c \in InventoryIds |->
                         { i \in Items : GetComponent(home[i], "Inventory") = c } ]

InitPos ==
    /\ InitCommon
    /\ contents = [ c \in InventoryIds |->
                      { i \in Items : GetComponent(GetAvatar(i % NumPlayers), "Inventory") = c } ]

\* Records the command just run; moved is the item it took out of or put into a slot.
Moved(op, arg, result, itemId) ==
    last' = [ op |-> op, arg |-> arg, result |-> result, moved |-> itemId ]

Done(op, arg, result) == Moved(op, arg, result, 0)

(* ---------------------------- commands --------------------------------- *)
\* Variant: a negative player number resets the avatar only.
setExecutingPlayerPartial(player) ==
    /\ IF player >= 0
       THEN /\ avatar' = GetAvatar(player)
            /\ attributes' = GetComponent(avatar', "Attributes")
            /\ inventory' = GetComponent(avatar', "Inventory")
            /\ equipment' = GetComponent(avatar', "ItemSlot")
       ELSE /\ avatar' = None
            /\ UNCHANGED << attributes, inventory, equipment >>
    /\ executing' = player
    /\ output' = << >>
    /\ Done("setExecutingPlayer", << player >>, "returned")
    /\ Quiet
    /\ UNCHANGED << contents, slotItem, Position, ndesync >>

setExecutingPlayer(player) ==
    /\ IF player >= 0
       THEN /\ avatar' = GetAvatar(player)
            /\ attributes' = GetComponent(avatar', "Attributes")
            /\ inventory' = GetComponent(avatar', "Inventory")
            /\ equipment' = GetComponent(avatar', "ItemSlot")
       ELSE /\ avatar' = None
            /\ attributes' = None
            /\ inventory' = None
            /\ equipment' = None
    /\ executing' = player
    /\ output' = << >>
    /\ Done("setExecutingPlayer", << player >>, "returned")
    /\ Quiet
    /\ UNCHANGED << contents, slotItem, Position, ndesync >>

\* Variant: the coordinates are handed to FarPosition in the wrong order.
gotoSwapped(pos, x, y) ==
    LET component == GetComponent(avatar, "Transform")
    IN  IF component = None THEN None
        ELSE [ pos EXCEPT ![component] = FarPosition(y, x) ]

\* goto on one peer's transforms: the new positions, or None when the lookup fails.
goto(pos, x, y) ==
    LET component == GetComponent(avatar, "Transform")
    IN  IF component = None THEN None
        ELSE [ pos EXCEPT ![component] = FarPosition(x, y) ]

gotoCommand(x, y) ==
    /\ IF GetComponent(avatar, "Transform") = None
       THEN /\ UNCHANGED Position
            /\ Done("goto", << x, y >>, "AttributeError")
       ELSE /\ Position' = [ p \in Peers |-> goto(Position[p], x, y) ]
            /\ Done("goto", << x, y >>, "returned")
    /\ output' = << >>
    /\ Quiet
    /\ UNCHANGED << globals, executing, contents, slotItem, ndesync >>

\* desync on every peer; random[p] is what random.random() returns there, twice.
desync(random) ==
    /\ ndesync < MaxDesync
    /\ ndesync' = ndesync + 1
    /\ IF GetComponent(avatar, "Transform") = None
       THEN /\ UNCHANGED Position
            /\ rnd' = [ p \in Peers |-> Origin ]
            /\ Done("desync", << >>, "AttributeError")
       ELSE /\ Position' = [ p \in Peers |->
                  LET translation == Position[p][GetComponent(avatar, "Transform")]
                  IN  goto(Position[p], translation[1] + random[p][1],
                                        translation[2] + random[p][2]) ]
            /\ rnd' = random
            /\ Done("desync", << >>, "returned")
    /\ output' = << >>
    /\ display' = [ p \in Peers |-> << >> ]
    /\ UNCHANGED << globals, executing, contents, slotItem >>

RECURSIVE dump(_, _, _)
RECURSIVE dumpSlots(_, _)
\* Variant: an item is printed after the items in its slots.
dumpAfter(slotId, itemId, si) ==
    dumpSlots(GetComponents(itemId), si) \o << << slotId, itemId >> >>

dump(slotId, itemId, si) ==
    << << slotId, itemId >> >> \o dumpSlots(GetComponents(itemId), si)

dumpSlots(slots, si) ==
    IF slots = << >> THEN << >>
    ELSE (IF si[Head(slots)] > 0 THEN dump(Head(slots), si[Head(slots)], si) ELSE << >>)
         \o dumpSlots(Tail(slots), si)

listEquipment ==
    /\ IF equipment = None
       THEN /\ output' = << >>
            /\ Done("listEquipment", << >>, "AttributeError")
       ELSE /\ output' = (IF slotItem[equipment] > 0
                          THEN dump(equipment, slotItem[equipment], slotItem)
                          ELSE << >>)
            /\ Done("listEquipment", << >>, "returned")
    /\ Quiet
    /\ UNCHANGED << globals, executing, contents, slotItem, Position, ndesync >>

\* The first slot of the sequence that is empty and accepts the item, or None.
RECURSIVE FirstFit(_, _)
RECURSIVE FirstEmpty(_, _)
\* Variant: the first empty slot, whether or not it accepts the item.
FirstEmpty(slots, item) ==
    IF slots = << >> THEN None
    ELSE IF slotItem[Head(slots)] = 0 THEN Head(slots)
    ELSE FirstEmpty(Tail(slots), item)

FirstFit(slots, item) ==
    IF slots = << >> THEN None
    ELSE IF slotItem[Head(slots)] = 0 /\ Validate(Head(slots), item) THEN Head(slots)
    ELSE FirstFit(Tail(slots), item)

\* Variant: an item that is not in the inventory is reported and skipped, not raised.
equipSilent(itemId) ==
    LET item == GetComponent(itemId, "Item")
    IN  /\ IF item = None
           THEN /\ UNCHANGED << contents, slotItem >>
                /\ Done("equip", << itemId >>, "ValueError: Invalid item.")
           ELSE IF inventory = None
           THEN /\ UNCHANGED << contents, slotItem >>
                /\ Done("equip", << itemId >>, "AttributeError")
           ELSE IF itemId \in contents[inventory]
           THEN IF equipment = None
                THEN /\ UNCHANGED << contents, slotItem >>
                     /\ Done("equip", << itemId >>, "AttributeError")
                ELSE LET slot == FirstFit(AllSlots(equipment, slotItem), item)
                     IN  /\ IF slot # None
                            THEN /\ slotItem' = [ slotItem EXCEPT ![slot] = itemId ]
                                 /\ contents' = [ contents EXCEPT ![inventory] = @ \ { itemId } ]
                            ELSE UNCHANGED << contents, slotItem >>
                         /\ Moved("equip", << itemId >>, "returned",
                                  IF slot # None THEN itemId ELSE 0)
           ELSE /\ UNCHANGED << contents, slotItem >>
                /\ Done("equip", << itemId >>, "returned")
        /\ output' = << >>
        /\ Quiet
        /\ UNCHANGED << globals, executing, Position, ndesync >>

equip(itemId) ==
    LET item == GetComponent(itemId, "Item")
    IN  /\ IF item = None
           THEN /\ UNCHANGED << contents, slotItem >>
                /\ Done("equip", << itemId >>, "ValueError: Invalid item.")
           ELSE IF inventory = None
           THEN /\ UNCHANGED << contents, slotItem >>
                /\ Done("equip", << itemId >>, "AttributeError")
           ELSE IF itemId \in contents[inventory]
           THEN IF equipment = None
                THEN /\ UNCHANGED << contents, slotItem >>
                     /\ Done("equip", << itemId >>, "AttributeError")
                ELSE LET slot == FirstFit(AllSlots(equipment, slotItem), item)
                     IN  /\ IF slot # None
                            THEN /\ slotItem' = [ slotItem EXCEPT ![slot] = itemId ]
                                 /\ contents' = [ contents EXCEPT ![inventory] = @ \ { itemId } ]
                            ELSE UNCHANGED << contents, slotItem >>
                         /\ Moved("equip", << itemId >>, "returned",
                                  IF slot # None THEN itemId ELSE 0)
           ELSE /\ UNCHANGED << contents, slotItem >>
                /\ Done("equip", << itemId >>, "ValueError: Item not in inventory.")
        /\ output' = << >>
        /\ Quiet
        /\ UNCHANGED << globals, executing, Position, ndesync >>

\* Variant: the item is added to the inventory but the slot is not cleared.
unequipKeepsSlot(slotId) ==
    /\ IF slotId \notin SlotIds
       THEN /\ UNCHANGED << contents, slotItem >>
            /\ Done("unequip", << slotId >>, "AttributeError")
       ELSE IF slotItem[slotId] > 0
       THEN LET itemId == slotItem[slotId]
            IN  /\ UNCHANGED slotItem
                /\ IF inventory = None
                   THEN /\ UNCHANGED contents
                        /\ Moved("unequip", << slotId >>, "AttributeError", itemId)
                   ELSE /\ contents' = [ contents EXCEPT ![inventory] = @ \cup { itemId } ]
                        /\ Moved("unequip", << slotId >>, "returned", itemId)
       ELSE /\ UNCHANGED << contents, slotItem >>
            /\ Done("unequip", << slotId >>, "returned")
    /\ output' = << >>
    /\ Quiet
    /\ UNCHANGED << globals, executing, Position, ndesync >>

unequip(slotId) ==
    /\ IF slotId \notin SlotIds
       THEN /\ UNCHANGED << contents, slotItem >>
            /\ Done("unequip", << slotId >>, "AttributeError")
       ELSE IF slotItem[slotId] > 0
       THEN LET itemId == slotItem[slotId]
            IN  /\ slotItem' = [ slotItem EXCEPT ![slotId] = 0 ]
                /\ IF inventory = None
                   THEN /\ UNCHANGED contents
                        /\ Moved("unequip", << slotId >>, "AttributeError", itemId)
                   ELSE /\ contents' = [ contents EXCEPT ![inventory] = @ \cup { itemId } ]
                        /\ Moved("unequip", << slotId >>, "returned", itemId)
       ELSE /\ UNCHANGED << contents, slotItem >>
            /\ Done("unequip", << slotId >>, "returned")
    /\ output' = << >>
    /\ Quiet
    /\ UNCHANGED << globals, executing, Position, ndesync >>

ftext(value) ==
    /\ display' = [ p \in Peers |-> Position[p][GetComponent(1, "Transform")] ]
    /\ output' = << >>
    /\ Done("ftext", << value >>, "returned")
    /\ rnd' = [ p \in Peers |-> Origin ]
    /\ UNCHANGED << globals, executing, contents, slotItem, Position, ndesync >>

(* ------------------------ inputs and behaviours ------------------------ *)
PlayerArgs == -1 .. (NumPlayers - 1)

\* Item ids tried: every item, and an avatar entity (which has no Item component).
ItemArgs == Items \cup { GetAvatar(0) }

\* Component ids tried: every slot, and an inventory (a component that is no slot).
SlotArgs == SlotIds \cup { GetComponent(GetAvatar(0), "Inventory") }

GotoArgs == { << 0, 0 >>, << Res, 0 >> }

RandomValues == (0 .. (Res - 1)) \X (0 .. (Res - 1))

Next ==
    \/ \E player \in PlayerArgs : setExecutingPlayer(player)
    \/ \E itemId \in ItemArgs : equip(itemId)
    \/ \E slotId \in SlotArgs : unequip(slotId)
    \/ listEquipment

Spec == Init /\ [][Next]_vars

NextPos ==
    \/ \E player \in PlayerArgs : setExecutingPlayer(player)
    \/ \E xy \in GotoArgs : gotoCommand(xy[1], xy[2])
    \/ \E random \in [ Peers -> RandomValues ] : desync(random)
    \/ ftext("text")

SpecPos == InitPos /\ [][NextPos]_vars

(* ------------------------- derived notions ----------------------------- *)
\* The items held directly by the slots of an item.
Children(itemId, si) == { si[s] : s \in Range(GetComponents(itemId)) } \ { 0 }

\* Least set containing set and closed under Children.
RECURSIVE Closure(_, _)
Closure(set, si) ==
    LET more == set \cup UNION { Children(i, si) : i \in set }
    IN  IF more = set THEN set ELSE Closure(more, si)

\* No item sits, directly or indirectly, in one of its own slots.
Acyclic(si) == \A i \in Items : i \notin Closure(Children(i, si), si)

\* Where an item is: the inventories and the slots that hold it.
Places(itemId) ==
    { c \in InventoryIds : itemId \in contents[c] } \cup { s \in SlotIds : slotItem[s] = itemId }

RootSlot(a) == ComponentId(a, 3)

InventoryOf(a) == ComponentId(a, 2)

\* The slots of avatar a's equipment tree, and those of the items in a's inventory.
OwnSlots(a) ==
    Range(AllSlots(RootSlot(a), slotItem))
      \cup UNION { Range(AllSlotsOf(GetComponents(i), slotItem)) : i \in contents[InventoryOf(a)] }

(* ------------------------------ C1 ------------------------------------- *)
\* C1 (as claimed): whenever equip(itemId) returns without raising for an item
\* that was in the executing player's inventory, the item has left the inventory
\* and sits in exactly one slot of equipment.AllSlots, a slot that was empty
\* before the call and validates the item -- whatever the slots look like.
C1_EquipAlwaysEquips ==
    [][ (last'.op = "equip" /\ last'.result = "returned" /\ inventory # None
            /\ last'.arg[1] \in contents[inventory])
        => LET itemId == last'.arg[1]
           IN  /\ itemId \notin contents'[inventory]
               /\ \E s \in Range(AllSlots(equipment, slotItem')) :
                     /\ slotItem'[s] = itemId
                     /\ slotItem[s] = 0
                     /\ SlotType(s) = ItemType(itemId)
                     /\ \A t \in SlotIds \ { s } : slotItem'[t] # itemId ]_vars

\* C1 (amended): whenever equip(itemId) returns without raising for an item that
\* was in the executing player's inventory, then either some slot of
\* equipment.AllSlots was both empty and validating, and the item has left the
\* inventory and sits in exactly one slot, which was empty before and validates
\* it, every other slot and inventory being unchanged; or no slot was both empty
\* and validating, and neither the inventory nor any slot has changed.
C1_EquipMovesOrLeaves ==
    [][ (last'.op = "equip" /\ last'.result = "returned" /\ inventory # None
            /\ last'.arg[1] \in contents[inventory])
        => LET itemId == last'.arg[1]
               fits == { s \in Range(AllSlots(equipment, slotItem)) :
                            slotItem[s] = 0 /\ SlotType(s) = ItemType(itemId) }
           IN  IF fits = { }
               THEN contents' = contents /\ slotItem' = slotItem
               ELSE /\ contents' = [ contents EXCEPT ![inventory] = @ \ { itemId } ]
                    /\ itemId \notin contents'[inventory]
                    /\ \E s \in fits :
                          /\ s \in Range(AllSlots(equipment, slotItem'))
                          /\ slotItem' = [ slotItem EXCEPT ![s] = itemId ]
                          /\ \A t \in SlotIds \ { s } : slotItem'[t] # itemId ]_vars

\* An item was just equipped into a slot carried by another equipped item.
C1_Witness ==
    /\ last.op = "equip" /\ last.result = "returned" /\ last.moved = last.arg[1]
    /\ last.moved > 0
    /\ last.moved \notin contents[inventory]
    /\ \E s \in SlotIds : slotItem[s] = last.moved /\ (s \div 10) \in Items

(* ------------------------------ C2 ------------------------------------- *)
\* C2: after unequip(slotId) returns for a slot that held an item, the slot is
\* empty and the item is in the executing player's inventory; for a slot that was
\* already empty, neither the slots nor the inventories change.
C2_UnequipReturnsItem ==
    [][ (last'.op = "unequip" /\ last'.result = "returned")
        => LET slotId == last'.arg[1]
           IN  /\ slotId \in SlotIds
               /\ slotItem[slotId] > 0
                    => /\ slotItem'[slotId] = 0
                       /\ inventory # None
                       /\ slotItem[slotId] \in contents'[inventory]
               /\ slotItem[slotId] = 0
                    => contents' = contents /\ slotItem' = slotItem ]_vars

\* unequip just returned after taking an item out of a slot.
C2_Witness ==
    /\ last.op = "unequip" /\ last.result = "returned" /\ last.moved > 0
    /\ slotItem[last.arg[1]] = 0
    /\ last.moved \in contents[inventory]

(* ------------------------------ C3 ------------------------------------- *)
\* C3: equip(itemId) raises 'Invalid item.' when itemId has no Item component
\* (checked first, in the inventory or not) and 'Item not in inventory.' when the
\* item is valid but not in the executing player's inventory; in both cases the
\* inventories and all slots are unchanged.
C3_EquipErrors ==
    [][ last'.op = "equip"
        => LET itemId == last'.arg[1]
           IN  /\ itemId \notin Items => last'.result = "ValueError: Invalid item."
               /\ (itemId \in Items /\ inventory # None /\ itemId \notin contents[inventory])
                    => last'.result = "ValueError: Item not in inventory."
               /\ last'.result = "ValueError: Invalid item." => itemId \notin Items
               /\ last'.result = "ValueError: Item not in inventory."
                    => itemId \in Items /\ itemId \notin contents[inventory]
               /\ last'.result \in { "ValueError: Invalid item.",
                                     "ValueError: Item not in inventory." }
                    => contents' = contents /\ slotItem' = slotItem ]_vars

\* equip just refused a valid item that another player holds.
C3_Witness ==
    /\ last.op = "equip" /\ last.result = "ValueError: Item not in inventory."
    /\ inventory # None
    /\ last.arg[1] \in Items /\ last.arg[1] \notin contents[inventory]

(* ------------------------------ C4 ------------------------------------- *)
\* C4: the four context globals agree with the last setExecutingPlayer call: for
\* a player number >= 0, avatar is that player's avatar and attributes, inventory
\* and equipment are components of that avatar; for a negative one, all four are
\* None.
C4_GlobalsConsistent ==
    IF executing >= 0
    THEN /\ avatar = executing + 1
         /\ attributes = ComponentId(avatar, 1)
         /\ inventory = InventoryOf(avatar)
         /\ equipment = RootSlot(avatar)
    ELSE avatar = None /\ attributes = None /\ inventory = None /\ equipment = None

\* No player is bound any more, after commands were run for one.
C4_Witness ==
    /\ last.op = "setExecutingPlayer" /\ last.arg[1] < 0
    /\ avatar = None
    /\ \E s \in SlotIds : slotItem[s] > 0

(* ------------------------------ C5 ------------------------------------- *)
\* C5: ftext displays the text at the executing player's location: the position
\* handed to FloatingTextSystem.Display is the position of that player's avatar.
C5_FtextAtPlayer ==
    (last.op = "ftext" /\ avatar # None)
        => \A p \in Peers : display[p] = Position[p][avatar]

PrintedEquipment ==
    LET root == { slotItem[equipment] } \ { 0 }
    IN  /\ { output[k][2] : k \in DOMAIN output } = Closure(root, slotItem)
        /\ \A j, k \in DOMAIN output : output[j][2] = output[k][2] => j = k
        /\ \A k \in DOMAIN output : slotItem[output[k][1]] = output[k][2]
        /\ \A j, k \in DOMAIN output :
              output[k][2] \in Children(output[j][2], slotItem) => j < k
        /\ slotItem[equipment] = 0 => output = << >>

\* C7: listEquipment terminates (the equipment graph never has a cycle) and
\* prints exactly the items reachable from the root slot through non-empty
\* slots, each once and before the items in its own slots, nothing for an empty
\* root slot, and it modifies no slot and no inventory.
C7_ListEquipment ==
    /\ [](Acyclic(slotItem))
    /\ []((last.op = "listEquipment" /\ last.result = "returned") => PrintedEquipment)
    /\ [][ last'.op = "listEquipment" => (contents' = contents /\ slotItem' = slotItem) ]_vars

\* listEquipment just printed a hull carrying two items, one of them a hull.
C7_Witness ==
    /\ last.op = "listEquipment" /\ last.result = "returned"
    /\ Len(output) >= 3
    /\ \E k \in DOMAIN output : (output[k][1] \div 10) \in Items

(* ------------------------------ C8 ------------------------------------- *)
\* C8: item conservation: after any sequence of setExecutingPlayer, equip and
\* unequip calls, raising or not, every item is in exactly one place, one
\* inventory or one slot, and equip never overwrites a slot that holds an item.
C8_ItemConservation ==
    /\ [](\A i \in Items : Cardinality(Places(i)) = 1)
    /\ [][ last'.op = "equip"
           => \A s \in SlotIds : slotItem[s] > 0 => slotItem'[s] = slotItem[s] ]_vars

(* ------------------------------ C9 ------------------------------------- *)
\* C9: player isolation: a command run for player p changes only p's own
\* inventory and the slots of p's own equipment; it never takes an item out of a
\* slot of another player's equipment nor moves it into p's inventory.
C9_PlayerIsolation ==
    [][ (last'.op \in { "equip", "unequip", "listEquipment" } /\ avatar # None)
        => /\ \A c \in InventoryIds \ { inventory } : contents'[c] = contents[c]
           /\ \A s \in SlotIds \ OwnSlots(avatar) : slotItem'[s] = slotItem[s] ]_vars

(* ------------------------------ C10 ------------------------------------ *)
\* C10: unequip is all-or-nothing: when unequip(slotId) fails with an error, the
\* slot still holds its item and nothing has changed.
C10_UnequipAllOrNothing ==
    [][ (last'.op = "unequip" /\ last'.result # "returned")
        => /\ slotItem' = slotItem
           /\ contents' = contents
           /\ UNCHANGED globals ]_vars

====
